---- MODULE Spec2Model ----
(***************************************************************************)
(* Model of the rasterisation and fill routines of PrimitiveRenderer       *)
(* (src/src/main.cpp): boundaryFill, floodFill, drawLineIncremental,       *)
(* drawCircle and drawPolygon.                                             *)
(***************************************************************************)
EXTENDS Integers, Sequences, FiniteSets, TLC

VARIABLES
    img,              \* sf::Image pixels: [Pixels -> Inks]
    img0,             \* the pixels as they were when the current call was entered
    q,                \* std::queue<sf::Vector2i> q of the running fill
    pc,               \* position of the control flow
    kind,             \* which fill is (or was last) running
    seed,             \* arguments x, y of the fill
    fillColor,        \* argument fillColor
    boundaryColor,    \* argument boundaryColor (boundaryFill only)
    backgroundColor,  \* floodFill's captured backgroundColor
    calls,            \* number of fill calls entered so far
    nreads,           \* getPixel calls made by the current call
    npops,            \* q.pop() calls made by the current call
    wlog,             \* setPixel calls made by the current call: <<p, old color>>
    prevWrites,       \* number of setPixel calls the previous call made
    pts,              \* positions passed to the rasteriser (endpoints or vertices)
    center,           \* drawCircle: center
    R,                \* drawCircle: R
    steps,            \* drawCircle: steps
    i,                \* loop index of drawCircle and of drawPolygon's edge loop
    pixels,           \* putPixel calls on the render target, in order
    lineCalls,        \* drawLineIncremental calls made by drawPolygon, in order
    ret               \* drawPolygon's return value

fillVars == <<img, img0, q, kind, seed, fillColor, boundaryColor,
              backgroundColor, calls, nreads, npops, wlog, prevWrites>>

rasterVars == <<pts, center, R, steps, i, pixels, lineCalls, ret>>

vars == <<pc, fillVars, rasterVars>>

----------------------------------------------------------------------------
(* Bounds of the model *)

GridW == 4
GridH == 4

Colors == {"White", "Black", "Green"}
NoColor == "none"

\* The colours an image can hold: the colours passed to the fills and one
\* more, as the canvas of m_imgFlood is of a colour no fill is called with.
Inks == Colors \cup {"Peach"}

Pixels == (0 .. GridW - 1) \X (0 .. GridH - 1)
Seeds == (-1 .. GridW) \X (-1 .. GridH)

----------------------------------------------------------------------------
(* sf::Image *)

Canvas(c) == [p \in Pixels |-> c]

\* getPixel: the set of values the read can return (outside the image the
\* read is undefined behaviour: any colour).
GetPixel(g, p) == IF p \in DOMAIN g THEN {g[p]} ELSE Inks

\* setPixel: the set of images the write can leave (outside the image the
\* write is undefined behaviour: it may hit any pixel or none).
SetPixel(g, p, c) ==
    IF p \in DOMAIN g THEN {[g EXCEPT ![p] = c]}
    ELSE {g} \cup {[g EXCEPT ![r] = c] : r \in DOMAIN g}

\* The frame of initFillDemos: rows y0 and y1 for x in [x0, x1), columns x0
\* and x1 for y in [y0, y1). The corner (x1, y1) is not drawn.
FramePixels(x0, y0, x1, y1) ==
    {p \in Pixels : \/ p[1] \in x0 .. x1 - 1 /\ p[2] \in {y0, y1}
                    \/ p[2] \in y0 .. y1 - 1 /\ p[1] \in {x0, x1}}

\* The border of the flood demo: rows 0 and h-1, columns 0 and w-1, complete.
BorderPixels ==
    {p \in Pixels : p[1] \in {0, GridW - 1} \/ p[2] \in {0, GridH - 1}}

Paint(g, S, c) == [p \in DOMAIN g |-> IF p \in S THEN c ELSE g[p]]

----------------------------------------------------------------------------
(* The fills *)

\* A bounds test that admits x = width and y = height.
InBoundsOffByOne(p) ==
    ~(p[1] < 0 \/ p[2] < 0 \/ p[1] > GridW \/ p[2] > GridH)

\* The bounds test of both fills, at entry and on every pop.
InBounds(p) ==
    ~(p[1] < 0 \/ p[2] < 0 \/ p[1] >= GridW \/ p[2] >= GridH)

\* A colour test that does not stop on fillColor.
BoundaryStopNoFill(c, fc, bc) == c = bc

\* A colour test that does not stop on boundaryColor.
BoundaryStopNoBoundary(c, fc, bc) == c = fc

\* boundaryFill: the colour stops the fill (at entry and on every pop).
BoundaryStop(c, fc, bc) == c = bc \/ c = fc

\* A colour test that does not compare with backgroundColor.
FloodStopNoBackground(c, bg, fc) == c = fc

\* floodFill: the colour stops the fill on a pop.
FloodStop(c, bg, fc) == c # bg \/ c = fc

\* Pushes that add a diagonal neighbour to the four of the code.
NeighboursWithDiagonal(p) ==
    << <<p[1] + 1, p[2]>>, <<p[1] - 1, p[2]>>, <<p[1], p[2] + 1>>,
       <<p[1], p[2] - 1>>, <<p[1] + 1, p[2] + 1>> >>

\* The four pushes after a write, in the order of the code.
Neighbours(p) ==
    << <<p[1] + 1, p[2]>>, <<p[1] - 1, p[2]>>,
       <<p[1], p[2] + 1>>, <<p[1], p[2] - 1>> >>

Return ==
    /\ pc' = "returned"
    /\ q' = <<>>

BoundaryFillEnter(x, y, fc, bc) ==
    /\ kind' = "boundary"
    /\ seed' = <<x, y>>
    /\ fillColor' = fc
    /\ boundaryColor' = bc
    /\ backgroundColor' = NoColor
    /\ calls' = calls + 1
    /\ img0' = img
    /\ img' = img
    /\ npops' = 0
    /\ wlog' = <<>>
    /\ prevWrites' = Len(wlog)
    /\ IF ~InBounds(<<x, y>>)
       THEN /\ nreads' = 0
            /\ Return
       ELSE /\ nreads' = 1
            /\ \E start \in GetPixel(img, <<x, y>>) :
                  IF BoundaryStop(start, fc, bc)
                  THEN Return
                  ELSE /\ q' = << <<x, y>> >>
                       /\ pc' = "loop"

FloodFillEnter(x, y, fc) ==
    /\ kind' = "flood"
    /\ seed' = <<x, y>>
    /\ fillColor' = fc
    /\ boundaryColor' = NoColor
    /\ calls' = calls + 1
    /\ img0' = img
    /\ img' = img
    /\ npops' = 0
    /\ wlog' = <<>>
    /\ prevWrites' = Len(wlog)
    /\ IF ~InBounds(<<x, y>>)
       THEN /\ nreads' = 0
            /\ backgroundColor' = NoColor
            /\ Return
       ELSE /\ nreads' = 1
            /\ \E bg \in GetPixel(img, <<x, y>>) :
                  /\ backgroundColor' = bg
                  /\ IF bg = fc
                     THEN Return
                     ELSE /\ q' = << <<x, y>> >>
                          /\ pc' = "loop"

\* One iteration of the while loop; stop is the colour test of the fill.
Pop(boundary) ==
    LET p == Head(q)
        stop(c) == IF boundary
                   THEN BoundaryStop(c, fillColor, boundaryColor)
                   ELSE FloodStop(c, backgroundColor, fillColor)
    IN
    /\ npops' = npops + 1
    /\ IF ~InBounds(p)
       THEN /\ q' = Tail(q)
            /\ UNCHANGED <<img, nreads, wlog>>
       ELSE /\ nreads' = nreads + 1
            /\ \E c \in GetPixel(img, p) :
                  IF stop(c)
                  THEN /\ q' = Tail(q)
                       /\ UNCHANGED <<img, wlog>>
                  ELSE /\ \E g \in SetPixel(img, p, fillColor) : img' = g
                       /\ wlog' = Append(wlog, <<p, c>>)
                       /\ q' = Tail(q) \o Neighbours(p)
    /\ pc' = "loop"
    /\ UNCHANGED <<img0, kind, seed, fillColor, boundaryColor,
                   backgroundColor, calls, prevWrites>>
    /\ UNCHANGED rasterVars

\* boundaryFill called on the image.
BoundaryFillCall ==
    /\ pc = "idle"
    /\ \E s \in Seeds, fc \in Colors, bc \in Colors :
          BoundaryFillEnter(s[1], s[2], fc, bc)
    /\ UNCHANGED rasterVars

\* floodFill called on the image.
FloodFillCall ==
    /\ pc = "idle"
    /\ \E s \in Seeds, fc \in Colors : FloodFillEnter(s[1], s[2], fc)
    /\ UNCHANGED rasterVars

BoundaryFillStep ==
    /\ pc = "loop"
    /\ kind = "boundary"
    /\ q # <<>>
    /\ Pop(TRUE)

FloodFillStep ==
    /\ pc = "loop"
    /\ kind = "flood"
    /\ q # <<>>
    /\ Pop(FALSE)

\* while (!q.empty()) fails: the fill returns.
FillReturn ==
    /\ pc = "loop"
    /\ q = <<>>
    /\ pc' = "returned"
    /\ UNCHANGED fillVars
    /\ UNCHANGED rasterVars

\* The same fill invoked again with identical arguments on the image the
\* first call left.
BoundaryFillAgain ==
    /\ pc = "returned"
    /\ calls = 1
    /\ kind = "boundary"
    /\ BoundaryFillEnter(seed[1], seed[2], fillColor, boundaryColor)
    /\ UNCHANGED rasterVars

FloodFillAgain ==
    /\ pc = "returned"
    /\ calls = 1
    /\ kind = "flood"
    /\ FloodFillEnter(seed[1], seed[2], fillColor)
    /\ UNCHANGED rasterVars

----------------------------------------------------------------------------
(* The images the fills are run on: the two images of initFillDemos, a      *)
(* canvas created in one colour with a frame (m_imgBoundary) or the complete *)
(* border (m_imgFlood) drawn on it, then optionally one more pixel set.      *)

\* The rectangle the frame is drawn on: it leaves a row of the image outside.
DemoRects == {<<0, 0, GridW - 1, GridH - 2>>}

Frames == {BorderPixels}
          \cup {FramePixels(r[1], r[2], r[3], r[4]) : r \in DemoRects}

Images ==
    {Paint(Paint(Canvas("White"), F, fcol), S, scol) :
        F \in Frames, fcol \in {"Black"},
        S \in {{}} \cup {{p} : p \in Pixels}, scol \in Colors}

FillIdle ==
    /\ img0 = img
    /\ q = <<>>
    /\ kind = "none"
    /\ seed = <<0, 0>>
    /\ fillColor = NoColor
    /\ boundaryColor = NoColor
    /\ backgroundColor = NoColor
    /\ calls = 0
    /\ nreads = 0
    /\ npops = 0
    /\ wlog = <<>>
    /\ prevWrites = 0

RasterIdle ==
    /\ center = <<0, 0>>
    /\ R = 0
    /\ steps = 0
    /\ i = 0
    /\ pixels = <<>>
    /\ lineCalls = <<>>
    /\ ret = FALSE

Init ==
    /\ pc = "idle"
    /\ img \in Images
    /\ FillIdle
    /\ pts = <<>>
    /\ RasterIdle

Next ==
    \/ BoundaryFillCall
    \/ FloodFillCall
    \/ BoundaryFillStep
    \/ FloodFillStep
    \/ FillReturn
    \/ BoundaryFillAgain
    \/ FloodFillAgain

Spec == Init /\ [][Next]_vars

\* A fill runs to completion: nothing suspends or cancels it.
FairSpec == Init /\ [][Next]_vars /\ WF_vars(Next)

----------------------------------------------------------------------------
(* Properties of the fills *)

Returned == pc = "returned" /\ calls >= 1

AllRects ==
    {r \in (0 .. GridW - 1) \X (0 .. GridH - 1) \X (0 .. GridW - 1) \X (0 .. GridH - 1) :
        r[3] >= r[1] + 2 /\ r[4] >= r[2] + 2}

\* p lies strictly inside the rectangle r = <<x0, y0, x1, y1>>
Inside(p, r) == r[1] < p[1] /\ p[1] < r[3] /\ r[2] < p[2] /\ p[2] < r[4]

\* p lies on the rectangle, corners included
OnPerimeter(p, r) ==
    /\ r[1] <= p[1] /\ p[1] <= r[3] /\ r[2] <= p[2] /\ p[2] <= r[4]
    /\ ~Inside(p, r)

\* p lies on one of the four sides and is no corner: it touches the interior
OnSide(p, r) ==
    /\ OnPerimeter(p, r)
    /\ (r[1] < p[1] /\ p[1] < r[3]) \/ (r[2] < p[2] /\ p[2] < r[4])

Interior(r) == {p \in Pixels : Inside(p, r)}

Adjacent(p, r) ==
    \/ p[1] = r[1] /\ (p[2] = r[2] + 1 \/ p[2] = r[2] - 1)
    \/ p[2] = r[2] /\ (p[1] = r[1] + 1 \/ p[1] = r[1] - 1)

RECURSIVE Grow(_, _)
Grow(S, E) ==
    LET N == {p \in E \ S : \E r \in S : Adjacent(p, r)}
    IN  IF N = {} THEN S ELSE Grow(S \cup N, E)

\* the pixels of E joined to s by a 4-connected path inside E
Connected(s, E) == IF s \in E THEN Grow({s}, E) ELSE {}

SeedOutside ==
    seed[1] < 0 \/ seed[2] < 0 \/ seed[1] >= GridW \/ seed[2] >= GridH

\* what claim C1 promises for the frame on rectangle r
Contained(r) ==
    /\ \A p \in Pixels : Inside(p, r) => img[p] = fillColor
    /\ \A p \in Pixels : img0[p] = boundaryColor => img[p] = boundaryColor
    /\ \A p \in Pixels : ~Inside(p, r) /\ ~OnPerimeter(p, r) => img[p] = img0[p]

\* C1 as stated: whenever boundaryFill has returned and the image it was
\* called on held a rectangular frame of boundaryColor with the seed strictly
\* inside, every pixel strictly inside the frame is fillColor, every pixel
\* that was boundaryColor still is, and every pixel outside is unchanged.
C1_AnyGridContainment ==
    (Returned /\ kind = "boundary") =>
        \A r \in AllRects :
            (/\ Inside(seed, r)
             /\ \A p \in Pixels : OnPerimeter(p, r) => img0[p] = boundaryColor)
            => Contained(r)

\* C1 amended: the same, for frames whose strict interior held no pixel of
\* boundaryColor or fillColor when boundaryFill was called. The frame needs
\* only its four sides (initFillDemos leaves one corner undrawn), and every
\* pixel that is not strictly inside the frame is unchanged.
C1_CleanInteriorContainment ==
    (Returned /\ kind = "boundary") =>
        \A r \in AllRects :
            (/\ Inside(seed, r)
             /\ \A p \in Pixels : OnSide(p, r) => img0[p] = boundaryColor
             /\ \A p \in Pixels :
                   Inside(p, r) => img0[p] # boundaryColor /\ img0[p] # fillColor)
            => /\ Contained(r)
               /\ \A p \in Pixels : ~Inside(p, r) => img[p] = img0[p]

\* C1 witness: a boundaryFill has returned that filled a frame's interior of
\* at least two pixels while a pixel outside the frame, which the fill would
\* have recoloured had it leaked, kept its colour.
C1_Witness ==
    /\ Returned /\ kind = "boundary" /\ calls = 1
    /\ fillColor # boundaryColor
    /\ \E r \in AllRects :
          /\ Inside(seed, r)
          /\ \A p \in Pixels : OnSide(p, r) => img0[p] = boundaryColor
          /\ \A p \in Interior(r) : img0[p] # boundaryColor /\ img0[p] # fillColor
          /\ Cardinality(Interior(r)) >= 2
          /\ Len(wlog) = Cardinality(Interior(r))
          /\ \E p \in Pixels :
                /\ ~Inside(p, r) /\ ~OnPerimeter(p, r)
                /\ img0[p] # boundaryColor /\ img0[p] # fillColor /\ img[p] = img0[p]

\* C2: whenever floodFill has returned from a call with the seed inside the
\* image and the seed's colour (the captured backgroundColor) different from
\* fillColor, the pixels 4-connected to the seed through pixels of that
\* colour are fillColor and every other pixel has the colour it had.
C2_FloodFillExact ==
    (Returned /\ kind = "flood" /\ seed \in Pixels /\ img0[seed] # fillColor) =>
        LET bg == img0[seed]
            region == Connected(seed, {p \in Pixels : img0[p] = bg})
        IN  /\ backgroundColor = bg
            /\ \A p \in Pixels :
                  img[p] = IF p \in region THEN fillColor ELSE img0[p]

\* C2 witness: floodFill has returned on an image of one colour with a
\* complete border of another, seeded inside: the interior is filled and
\* the border kept.
C2_Witness ==
    /\ Returned /\ kind = "flood" /\ calls = 1
    /\ seed \in Pixels \ BorderPixels
    /\ \E bg \in Colors, bd \in Colors :
          /\ bg # bd /\ bg # fillColor /\ bd # fillColor
          /\ img0 = Paint(Canvas(bg), BorderPixels, bd)
          /\ img = Paint(img0, Pixels \ BorderPixels, fillColor)
    /\ Len(wlog) = Cardinality(Pixels \ BorderPixels)

\* C5: a fill invoked again with identical arguments on the image its first
\* run left makes no setPixel call and leaves every pixel as it was.
C5_FillIdempotent ==
    calls = 2 => (img = img0 /\ wlog = <<>>)

\* C5 witness: the second invocation has returned after a first one that
\* recoloured at least two pixels.
C5_Witness ==
    Returned /\ calls = 2 /\ prevWrites >= 2 /\ img = img0

\* C6: a fill called with the seed outside the image has returned with
\* every pixel unchanged and no getPixel or setPixel call made.
C6_SeedOutOfBounds ==
    (calls >= 1 /\ SeedOutside) =>
        /\ pc = "returned"
        /\ img = img0
        /\ nreads = 0
        /\ wlog = <<>>
        /\ npops = 0

\* C6 witness: a fill has returned from a call whose seed is one column past
\* the right edge of the image.
C6_Witness ==
    Returned /\ calls = 1 /\ seed[1] = GridW /\ seed[2] \in 0 .. GridH - 1

\* the pixels the running fill would still recolour
Eligible ==
    {p \in Pixels :
        IF kind = "boundary"
        THEN img[p] # boundaryColor /\ img[p] # fillColor
        ELSE img[p] = backgroundColor /\ img[p] # fillColor}

\* C9: a running fill eventually returns with its queue empty; every pop
\* that recolours a pixel leaves strictly fewer eligible pixels; and no call
\* recolours (and so enqueues neighbours) more than width*height times.
C9_FillTerminates ==
    /\ (pc = "loop") ~> (pc = "returned" /\ q = <<>>)
    /\ [][(pc = "loop" /\ Len(wlog') > Len(wlog))
            => Cardinality(Eligible') < Cardinality(Eligible)]_vars
    /\ [](Len(wlog) <= GridW * GridH /\ npops <= 4 * GridW * GridH + 1)

\* C9 witness: a boundaryFill with fillColor = boundaryColor has returned
\* after recolouring every pixel of the image.
C9_Witness ==
    /\ Returned /\ kind = "boundary" /\ fillColor = boundaryColor
    /\ Len(wlog) = GridW * GridH
    /\ npops = 4 * GridW * GridH + 1

\* C10: every setPixel call of the running (or last) call was made on a
\* pixel of the image whose colour at that moment was not fillColor, not
\* boundaryColor (boundaryFill), and was backgroundColor (floodFill); no
\* pixel was written twice by the call.
C10_WriteGuard ==
    /\ \A k \in 1 .. Len(wlog) :
          LET p == wlog[k][1]
              old == wlog[k][2]
          IN  /\ p \in Pixels
              /\ old # fillColor
              /\ kind = "boundary" => old # boundaryColor
              /\ kind = "flood" => old = backgroundColor
              /\ img0[p] = old
    /\ Cardinality({wlog[k][1] : k \in 1 .. Len(wlog)}) = Len(wlog)

\* C10 witness: a fill is running that has written pixels while its queue
\* holds a coordinate twice and a coordinate outside the image.
C10_Witness ==
    /\ pc = "loop"
    /\ Len(wlog) >= 2
    /\ \E k \in 1 .. Len(q) : \E j \in 1 .. Len(q) : k # j /\ q[k] = q[j]
    /\ \E k \in 1 .. Len(q) : q[k] \notin Pixels

----------------------------------------------------------------------------
(* boundaryFill on images of several colours: the canvas is painted in a    *)
(* pattern of colours, then the frame or the border is drawn on it and      *)
(* optionally one more pixel is set (a wall in the region or a gap in the   *)
(* frame).                                                                  *)

\* Three colours in diagonal bands, so that a pixel differs from its four
\* neighbours and, whatever the two colours of the call, pixels of either
\* kind lie beside each other.
Patterns ==
    { [p \in Pixels |-> IF (p[1] + 2 * p[2]) % 3 = 0 THEN "White"
                        ELSE IF (p[1] + 2 * p[2]) % 3 = 1 THEN "Peach"
                        ELSE "Green"] }

HeteroImages ==
    {Paint(Paint(P, F, "Black"), S, scol) :
        P \in Patterns, F \in Frames,
        S \in {{}} \cup {{p} : p \in Pixels}, scol \in {"Black", "White"}}

HeteroInit ==
    /\ pc = "idle"
    /\ img \in HeteroImages
    /\ FillIdle
    /\ pts = <<>>
    /\ RasterIdle

HeteroNext ==
    \/ BoundaryFillCall
    \/ BoundaryFillStep
    \/ FillReturn

HeteroSpec == HeteroInit /\ [][HeteroNext]_vars

\* the pixels boundaryFill may recolour: initially neither boundaryColor nor
\* fillColor
Open == {p \in Pixels : img0[p] # boundaryColor /\ img0[p] # fillColor}

\* p and r touch by a corner only
Diagonal(p, r) ==
    (p[1] = r[1] + 1 \/ p[1] = r[1] - 1) /\ (p[2] = r[2] + 1 \/ p[2] = r[2] - 1)

\* C11: when boundaryFill has returned from a call whose seed was inside the
\* image and of a colour that is neither boundaryColor nor fillColor, the
\* pixels that are joined to the seed by a 4-connected path of pixels whose
\* initial colour is neither boundaryColor nor fillColor are fillColor,
\* whatever colour they had, and every other pixel has its initial colour.
C11_HeterogeneousRegion ==
    (/\ Returned
     /\ kind = "boundary"
     /\ ~SeedOutside
     /\ seed \in Open)
    => \A p \in Pixels :
          img[p] = IF p \in Connected(seed, Open) THEN fillColor ELSE img0[p]

\* C11: a returned boundaryFill with fillColor # boundaryColor that has
\* recoloured pixels of two different initial colours and has left alone a
\* pixel of the same kind that touches the filled region by a corner only.
C11_Witness ==
    /\ Returned
    /\ kind = "boundary"
    /\ fillColor # boundaryColor
    /\ seed \in Open
    /\ Cardinality({wlog[k][2] : k \in 1 .. Len(wlog)}) >= 2
    /\ \E p \in Open :
          /\ img[p] = img0[p]
          /\ \E d \in Open : Diagonal(p, d) /\ img[d] = fillColor
          /\ \A r \in Open : Adjacent(p, r) => img[r] = img0[r]

----------------------------------------------------------------------------
(* Positions: sf::Vector2f with both coordinates a multiple of 1/Sub, held  *)
(* as the pair of numerators. Pixels are pairs of integers.                 *)

SubBits == 1
Sub == 2 ^ SubBits
MaxCoord == 2
MaxVerts == 4
MaxSteps == 2

Abs(n) == IF n < 0 THEN -n ELSE n

\* std::round of n/d (d > 0): to the nearest integer, a half away from zero.
RoundDiv(n, d) ==
    IF n >= 0 THEN (2 * n + d) \div (2 * d) ELSE -((2 * (-n) + d) \div (2 * d))

\* n/d lies exactly half way between two integers
IsTie(n, d) == (2 * n) % d = 0 /\ ((2 * n) \div d) % 2 = 1

\* std::round of a float whose exact value is n/d: when the float arithmetic
\* that produced it was exact this is RoundDiv; when it was inexact and n/d
\* is a tie, the float lies on either side of the tie (which side depends
\* on the rounding of the intermediate results).
RoundFloat(n, d, exact) ==
    IF exact \/ ~IsTie(n, d) THEN {RoundDiv(n, d)}
    ELSE {n \div d, n \div d + 1}

RoundPos(a) == <<RoundDiv(a[1], Sub), RoundDiv(a[2], Sub)>>

----------------------------------------------------------------------------
(* drawLineIncremental. The value of y in iteration k is y0 + k*m; the code  *)
(* reaches it by adding the float m to the float y k times, which is exact  *)
(* when m = dy/dx is a dyadic fraction and rounded otherwise.               *)

DrawLineIncremental(a, b) ==
    LET dxa == b[1] - a[1]
        dya == b[2] - a[2]
        steep == Abs(dya) > Abs(dxa)
        \* after the swap of x and y
        sx0 == IF steep THEN a[2] ELSE a[1]
        sy0 == IF steep THEN a[1] ELSE a[2]
        sx1 == IF steep THEN b[2] ELSE b[1]
        sy1 == IF steep THEN b[1] ELSE b[2]
        \* after the swap of the endpoints
        rev == sx0 > sx1
        x0 == IF rev THEN sx1 ELSE sx0
        y0 == IF rev THEN sy1 ELSE sy0
        x1 == IF rev THEN sx0 ELSE sx1
        y1 == IF rev THEN sy0 ELSE sy1
        dx == x1 - x0
        dy == y1 - y0
        first == RoundDiv(x0, Sub)
        last == RoundDiv(x1, Sub)
        exactM == (Abs(dy) * 1024) % dx = 0
        \* round(y) in iteration k (k = 0 for the first), y = y0 + k * dy/dx
        ry(k) == RoundFloat(y0 * dx + k * Sub * dy, Sub * dx, exactM \/ k = 0)
        pix(k, r) == IF steep THEN <<r, first + k>> ELSE <<first + k, r>>
        \* the iterations whose rounding has two outcomes
        open == {k \in 0 .. (last - first) : Cardinality(ry(k)) > 1}
    IN  IF dxa = 0 /\ dya = 0
        THEN {<< RoundPos(a) >>}
        ELSE {[k \in 1 .. (last - first + 1) |->
                  IF (k - 1) \in up
                  THEN pix(k - 1, (y0 * dx + (k - 1) * Sub * dy) \div (Sub * dx) + 1)
                  ELSE IF (k - 1) \in open
                  THEN pix(k - 1, (y0 * dx + (k - 1) * Sub * dy) \div (Sub * dx))
                  ELSE pix(k - 1, CHOOSE r \in ry(k - 1) : TRUE)] :
              up \in SUBSET open}

LinePositions ==
    (-(MaxCoord * Sub) .. MaxCoord * Sub) \X (-(MaxCoord * Sub) .. MaxCoord * Sub)

LineInit ==
    /\ pc = "idle"
    /\ img = Canvas("White")
    /\ FillIdle
    /\ pts \in LinePositions \X LinePositions
    /\ RasterIdle

\* drawLineIncremental(target, a, b, color)
DrawLineCall ==
    /\ pc = "idle"
    /\ \E out \in DrawLineIncremental(pts[1], pts[2]) : pixels' = out
    /\ pc' = "done"
    /\ UNCHANGED fillVars
    /\ UNCHANGED <<pts, center, R, steps, i, lineCalls, ret>>

LineNext == DrawLineCall

LineSpec == LineInit /\ [][LineNext]_vars

----------------------------------------------------------------------------
(* drawCircle. std::cos and std::sin of alpha = (pi/4) * i / steps are read *)
(* from a table of their values to six decimals, indexed by 12 * i / steps  *)
(* (alpha = k * pi / 48), for the step counts that divide 12.               *)

TrigScale == 1000 * 1000

CosTable ==
    <<1000000, 997859, 991445, 980785, 965926, 946930, 923880,
      896873, 866025, 831470, 793353, 751840, 707107>>

SinTable ==
    <<0, 65403, 130526, 195090, 258819, 321439, 382683,
      442289, 500000, 555570, 608761, 659346, 707107>>

StepCounts == {n \in 1 .. MaxSteps : 12 % n = 0}

\* round(c + s * r * t) for a center coordinate c, the radius r and a table
\* value t, s = 1 or -1
RoundOffset(c, s, r, t) == RoundDiv(c * TrigScale + s * r * t, Sub * TrigScale)

\* The eight pixels px[k], py[k] of one sample
OctantPixels(c, r, n, k) ==
    LET x == CosTable[(12 * k) \div n + 1]
        y == SinTable[(12 * k) \div n + 1]
        X(s, t) == RoundOffset(c[1], s, r, t)
        Y(s, t) == RoundOffset(c[2], s, r, t)
    IN  << <<X(1, x), Y(1, y)>>,   <<X(1, y), Y(1, x)>>,
           <<X(-1, x), Y(1, y)>>,  <<X(-1, y), Y(1, x)>>,
           <<X(-1, x), Y(-1, y)>>, <<X(-1, y), Y(-1, x)>>,
           <<X(1, x), Y(-1, y)>>,  <<X(1, y), Y(-1, x)>> >>

CircleInit ==
    /\ pc = "idle"
    /\ img = Canvas("White")
    /\ FillIdle
    /\ pts = <<>>
    /\ center \in LinePositions
    /\ R \in 0 .. MaxCoord * Sub
    /\ steps \in StepCounts
    /\ i = 0
    /\ pixels = <<>>
    /\ lineCalls = <<>>
    /\ ret = FALSE

\* drawCircle(target, center, R, color, steps) entered
DrawCircleCall ==
    /\ pc = "idle"
    /\ i' = 0
    /\ pc' = "circle"
    /\ UNCHANGED fillVars
    /\ UNCHANGED <<pts, center, R, steps, pixels, lineCalls, ret>>

\* one iteration of the sample loop
DrawCircleStep ==
    /\ pc = "circle"
    /\ i <= steps
    /\ pixels' = pixels \o OctantPixels(center, R, steps, i)
    /\ i' = i + 1
    /\ UNCHANGED pc
    /\ UNCHANGED fillVars
    /\ UNCHANGED <<pts, center, R, steps, lineCalls, ret>>

DrawCircleReturn ==
    /\ pc = "circle"
    /\ i > steps
    /\ pc' = "done"
    /\ UNCHANGED fillVars
    /\ UNCHANGED rasterVars

CircleNext ==
    \/ DrawCircleCall
    \/ DrawCircleStep
    \/ DrawCircleReturn

CircleSpec == CircleInit /\ [][CircleNext]_vars

----------------------------------------------------------------------------
(* drawPolygon *)

Cross(a, b, c) ==
    (b[1] - a[1]) * (c[2] - a[2]) - (b[2] - a[2]) * (c[1] - a[1])

SegmentsIntersect(a1, a2, b1, b2) ==
    LET d1 == Cross(a1, a2, b1)
        d2 == Cross(a1, a2, b2)
        d3 == Cross(b1, b2, a1)
        d4 == Cross(b1, b2, a2)
    IN  /\ (d1 > 0 /\ d2 < 0) \/ (d1 < 0 /\ d2 > 0)
        /\ (d3 > 0 /\ d4 < 0) \/ (d3 < 0 /\ d4 > 0)

\* pts[k] of the code, k counted from 0
At(p, k) == p[k + 1]

\* A pair loop whose inner index stops one edge early.
SelfIntersectsShortLoop(p) ==
    LET n == Len(p) IN
    \E a \in 0 .. n - 1 : \E b \in a + 1 .. n - 2 :
        /\ ~(b = a)
        /\ ~((b + 1) % n = a \/ (a + 1) % n = b)
        /\ SegmentsIntersect(At(p, a), At(p, (a + 1) % n),
                             At(p, b), At(p, (b + 1) % n))

\* The double loop of drawPolygon finds a pair of edges and returns false.
SelfIntersects(p) ==
    LET n == Len(p) IN
    \E a \in 0 .. n - 1 : \E b \in a + 1 .. n - 1 :
        /\ ~(b = a)
        /\ ~((b + 1) % n = a \/ (a + 1) % n = b)
        /\ SegmentsIntersect(At(p, a), At(p, (a + 1) % n),
                             At(p, b), At(p, (b + 1) % n))

\* An edge loop that does not wrap to pts[0].
EdgeNoWrap(p, k) == <<At(p, k), At(p, IF k + 1 < Len(p) THEN k + 1 ELSE k)>>

\* The edge drawn in iteration k of the second loop
Edge(p, k) == <<At(p, k), At(p, (k + 1) % Len(p))>>

PolyCoords == {0, 5, 10}
PolyPositions == {<<x * Sub, y * Sub>> : x \in PolyCoords, y \in PolyCoords}

PolyInit ==
    /\ pc = "idle"
    /\ img = Canvas("White")
    /\ FillIdle
    /\ \E n \in 0 .. MaxVerts : pts \in [1 .. n -> PolyPositions]
    /\ RasterIdle

\* drawPolygon(target, pts, color) entered: the size test and the
\* self-intersection loop
DrawPolygonCall ==
    /\ pc = "idle"
    /\ IF Len(pts) < 3 \/ SelfIntersects(pts)
       THEN /\ ret' = FALSE
            /\ pc' = "done"
       ELSE /\ ret' = ret
            /\ pc' = "edges"
    /\ i' = 0
    /\ UNCHANGED fillVars
    /\ UNCHANGED <<pts, center, R, steps, pixels, lineCalls>>

\* one iteration of the edge loop
DrawPolygonEdge ==
    /\ pc = "edges"
    /\ i < Len(pts)
    /\ LET e == Edge(pts, i) IN
          /\ lineCalls' = Append(lineCalls, e)
          /\ \E out \in DrawLineIncremental(e[1], e[2]) : pixels' = pixels \o out
    /\ i' = i + 1
    /\ UNCHANGED pc
    /\ UNCHANGED fillVars
    /\ UNCHANGED <<pts, center, R, steps, ret>>

DrawPolygonReturn ==
    /\ pc = "edges"
    /\ i >= Len(pts)
    /\ ret' = TRUE
    /\ pc' = "done"
    /\ UNCHANGED fillVars
    /\ UNCHANGED <<pts, center, R, steps, i, pixels, lineCalls>>

PolyNext ==
    \/ DrawPolygonCall
    \/ DrawPolygonEdge
    \/ DrawPolygonReturn

PolySpec == PolyInit /\ [][PolyNext]_vars

----------------------------------------------------------------------------
(* Properties of the rasterisers *)

Range(f) == {f[k] : k \in DOMAIN f}

\* -1, 0 or 1: the side of the line through a and b on which c lies
Orientation(a, b, c) ==
    LET d == (b[1] - a[1]) * (c[2] - a[2]) - (b[2] - a[2]) * (c[1] - a[1])
    IN  IF d > 0 THEN 1 ELSE IF d < 0 THEN -1 ELSE 0

\* the edges a1-a2 and b1-b2 properly cross
ProperlyCross(a1, a2, b1, b2) ==
    /\ Orientation(a1, a2, b1) * Orientation(a1, a2, b2) = -1
    /\ Orientation(b1, b2, a1) * Orientation(b1, b2, a2) = -1

\* some two edges of the vertex loop p that share no endpoint properly cross
HasCrossingEdges(p) ==
    LET n == Len(p)
        nxt(k) == (k % n) + 1
    IN  \E a \in 1 .. n : \E b \in 1 .. n :
            /\ {a, nxt(a)} \cap {b, nxt(b)} = {}
            /\ ProperlyCross(p[a], p[nxt(a)], p[b], p[nxt(b)])

\* C3: drawPolygon has returned false, with no pixel written and no line
\* drawn, if the vertex list has fewer than 3 vertices or two edges that
\* share no endpoint properly cross; otherwise it has returned true and has
\* written pixels.
C3_PolygonRejection ==
    pc = "done" =>
        IF Len(pts) < 3 \/ HasCrossingEdges(pts)
        THEN ret = FALSE /\ pixels = <<>> /\ lineCalls = <<>>
        ELSE ret = TRUE /\ pixels # <<>>

\* C3 witness: drawPolygon has returned false on the bowtie
\* (0,0),(10,10),(10,0),(0,10) without writing a pixel.
C3_Witness ==
    /\ pc = "done"
    /\ pts = << <<0, 0>>, <<10 * Sub, 10 * Sub>>, <<10 * Sub, 0>>, <<0, 10 * Sub>> >>
    /\ ret = FALSE
    /\ pixels = <<>>

\* the pixel sequences a run of drawLineIncremental over the edges es, in
\* order, can write
RECURSIVE LineRuns(_)
LineRuns(es) ==
    IF es = <<>> THEN {<<>>}
    ELSE {h \o t : h \in DrawLineIncremental(es[1][1], es[1][2]),
                   t \in LineRuns(Tail(es))}

\* C8: when drawPolygon has returned true, the vertex list has n >= 3
\* vertices, drawLineIncremental was called exactly n times, call k on the
\* edge from vertex k to vertex k+1 (the last back to the first), and the
\* pixels written are exactly the pixels of those n lines, in that order.
C8_PolygonEdges ==
    (pc = "done" /\ ret = TRUE) =>
        LET n == Len(pts)
            edges == [k \in 1 .. n |-> <<pts[k], pts[(k % n) + 1]>>]
        IN  /\ n >= 3
            /\ lineCalls = edges
            /\ pixels \in LineRuns(edges)

\* C8 witness: drawPolygon has returned true on the convex quadrilateral
\* (0,0),(10,0),(10,10),(0,10) after four line calls of eleven pixels each.
C8_Witness ==
    /\ pc = "done"
    /\ pts = << <<0, 0>>, <<10 * Sub, 0>>, <<10 * Sub, 10 * Sub>>, <<0, 10 * Sub>> >>
    /\ ret = TRUE
    /\ Len(lineCalls) = 4
    /\ Len(pixels) = 44

\* C4: when drawLineIncremental has returned from a call on two distinct
\* positions a and b, the pixels it wrote include round(a) and round(b).
C4_LineEndpoints ==
    (pc = "done" /\ pts[1] # pts[2]) =>
        /\ RoundPos(pts[1]) \in Range(pixels)
        /\ RoundPos(pts[2]) \in Range(pixels)

\* the position c + <<dx, dy>> is the position of a pixel that was written
WrittenAt(c, dx, dy) ==
    /\ (c[1] + dx) % Sub = 0
    /\ (c[2] + dy) % Sub = 0
    /\ <<(c[1] + dx) \div Sub, (c[2] + dy) \div Sub>> \in Range(pixels)

\* C7: when drawCircle has returned, the eight reflections about center of
\* every pixel it wrote were written too.
C7_CircleSymmetric ==
    pc = "done" =>
        \A p \in Range(pixels) :
            LET dx == p[1] * Sub - center[1]
                dy == p[2] * Sub - center[2]
            IN  \A sa \in {-1, 1} : \A sb \in {-1, 1} :
                    /\ WrittenAt(center, sa * dx, sb * dy)
                    /\ WrittenAt(center, sa * dy, sb * dx)

====
